---- MODULE Spec2Model ----
(***************************************************************************)
(* A model of the lua-macros crate (src/src/lib.rs): the auto_cleanup      *)
(* scope macro, the convert_arguments macro (strict and permissive), and   *)
(* the FromLua / ToLua implementations generated by lua_table_type and     *)
(* lua_array_type, run against a model of the Lua value stack.             *)
(***************************************************************************)
EXTENDS Integers, Sequences, FiniteSets, TLC

VARIABLES
    stack,      \* the Lua value stack, slot 1 at the bottom
    heap,       \* the tables of the Lua state: table id -> (key -> value)
    pc,         \* position of the running host function
    op,         \* the operation the host function runs
    stack0,     \* ghost: the stack when the operation was entered
    steps,      \* auto_cleanup: statements of the user's block run so far
    acTop,      \* auto_cleanup: the local `top` of the macro expansion
    blockRes,   \* auto_cleanup: the value the user's block evaluates to
    exit,       \* how the host function was left: normal | return | panic
    strict,     \* convert_arguments: the $strict expression
    sels,       \* convert_arguments: the selector list $($from),+
    res,        \* the value the operation yields
    reads,      \* ghost: the slots to_type was called on, in call order
    registry,   \* the metatables of the Lua registry: name -> (field -> fn)
    index,      \* from_lua: the local `index` after abs_index
    ktype,      \* from_lua: the $key type of the wrapper
    vtype,      \* from_lua: the $val type of the wrapper
    coll,       \* from_lua: the local `map` or `vec` built so far
    conv,       \* from_lua: what the entry's convert_arguments returned
    left,       \* the keys `next` has not enumerated yet
    idx,        \* lua_array_type::from_lua: the loop variable
    getis,      \* ghost: the keys geti was called with, in call order
    hostVec,    \* ghost: the host sequence to_lua was given
    udType,     \* lua_userdata: the $ud of the attach or push
    udVal,      \* lua_userdata: the host value pushed
    loadType,   \* lua_userdata: the type from_lua was asked for
    methods,    \* lua_userdata: the $field => $func list of the attach
    attaches,   \* attach calls made so far
    registry0,  \* ghost: the registry when the operation was entered
    acTop2,     \* auto_cleanup: `top` of a scope nested in the block, -1 if none
    innerExit,  \* how control left the nested scope
    outer,      \* the result of a convert_arguments around a from_lua
    heap0,      \* ghost: the heap when the operation was entered
    visited,    \* ghost: the keys `next` has returned, in its order
    converted   \* ghost: the keys whose entry convert_arguments was run on

scopeVars == <<steps, acTop, blockRes>>
convVars == <<strict, sels, reads>>
loopVars == <<index, ktype, vtype, coll, conv, left, idx, getis>>
udVars == <<udType, udVal, loadType, methods, attaches, registry0>>
nestVars == <<acTop2, innerExit, outer>>
ghostVars == <<heap0, visited, converted>>
vars == <<stack, heap, pc, op, stack0, exit, res, registry, hostVec,
          scopeVars, convVars, loopVars, udVars, nestVars, ghostVars>>

---------------------------------------------------------------------------
(* Bounds of the model. *)

MaxStack == 3       \* height of the initial stack
MaxSel == 3         \* length of a selector list
MaxBlockOps == 2    \* pushes / pops a user block of auto_cleanup performs
MaxKey == 4         \* integer keys of the tables of the initial heap
MaxEntries == 3     \* entries of a table of the initial heap
MaxVec == 3         \* length of a host sequence given to to_lua
MaxAttach == 2      \* attach calls a host function makes in a row

---------------------------------------------------------------------------
(* Lua values: a dynamic type tag, a payload and a metatable name.         *)
(* Strings are numbered; a float's payload counts halves (v = 3 is 1.5);   *)
(* a table's payload is its place in the heap.                             *)

Nil == [t |-> "nil", v |-> 0, mt |-> ""]
LInt(i) == [t |-> "int", v |-> i, mt |-> ""]
LFlt(x) == [t |-> "float", v |-> x, mt |-> ""]
LStr(c) == [t |-> "str", v |-> c, mt |-> ""]
LTbl(id) == [t |-> "table", v |-> id, mt |-> ""]
LFn(f) == [t |-> "function", v |-> f, mt |-> ""]
(* A userdata cell: the host value stored in it and its metatable's name   *)
(* ("" when it has none).                                                  *)
LUd(x, name) == [t |-> "userdata", v |-> x, mt |-> name]

PrimVals == {Nil, LInt(1), LInt(2), LFlt(3), LStr(1)}

(* Host values: the host type and a payload.  A Number's payload counts    *)
(* halves, so Integer 1 and Number 1.0 are [Integer, 1] and [Number, 2].   *)
HV(ty, v) == [ty |-> ty, v |-> v]
Unit == HV("Unit", 0)

None == [some |-> FALSE, val |-> Unit]
Some(x) == [some |-> TRUE, val |-> x]

Ok(t) == [tag |-> "Ok", tuple |-> t, pos |-> 0]
Err(p) == [tag |-> "Err", tuple |-> <<>>, pos |-> p]
NoRes == [tag |-> "none", tuple |-> <<>>, pos |-> 0]

PrimTypes == {"Integer", "Number", "String"}
Wild == "_"
Selectors == PrimTypes \cup {Wild}

---------------------------------------------------------------------------
(* The primitives of lua::State the macros call. *)

GetTop(s) == Len(s)

SetTop(s, n) ==
    IF n <= Len(s) THEN SubSeq(s, 1, n)
    ELSE s \o [i \in 1..(n - Len(s)) |-> Nil]

Push(s, x) == Append(s, x)

Pop(s, n) == SetTop(s, Len(s) - n)

AbsIndex(s, i) == IF i > 0 THEN i ELSE Len(s) + 1 + i

ValidIndex(s, i) == AbsIndex(s, i) \in 1..Len(s)

(* The dynamic representations a primitive host type reads from. *)
Matches(ty, x) ==
    CASE ty = "Integer" -> x.t = "int"
      [] ty = "Number" -> x.t \in {"int", "float"}
      [] ty = "String" -> x.t = "str"
      [] OTHER -> FALSE

(* The host value read from a matching Lua value. *)
FromLuaPrim(ty, x) ==
    CASE ty = "Integer" -> HV("Integer", x.v)
      [] ty = "Number" -> HV("Number", IF x.t = "int" THEN 2 * x.v ELSE x.v)
      [] ty = "String" -> HV("String", x.v)
      [] OTHER -> Unit

(* state.to_type::<T>(index) for a primitive T: no stack effect. *)
ToType(ty, s, i) ==
    IF ValidIndex(s, i) /\ Matches(ty, s[AbsIndex(s, i)])
    THEN Some(FromLuaPrim(ty, s[AbsIndex(s, i)]))
    ELSE None

IsTable(s, i) == ValidIndex(s, i) /\ s[AbsIndex(s, i)].t = "table"

IsNil(s, i) == ValidIndex(s, i) /\ s[AbsIndex(s, i)].t = "nil"

(* The table a slot refers to. *)
TableAt(hp, s, i) == hp[s[AbsIndex(s, i)].v]

(* state.geti(index, n): pushes the value at integer key n, or nil. *)
GetI(hp, s, i, n) ==
    LET tb == TableAt(hp, s, i)
    IN  Push(s, IF LInt(n) \in DOMAIN tb THEN tb[LInt(n)] ELSE Nil)

(* state.next(index) when it enumerates key k: the key slot on top is      *)
(* replaced by k and the value at k is pushed.                             *)
NextEntry(hp, s, i, k) ==
    LET tb == TableAt(hp, s, i)
    IN  Push(Push(Pop(s, 1), k), tb[k])

(* state.next(index) when no key is left: the key slot is popped. *)
NextEnd(s) == Pop(s, 1)

(* state.new_table(): a fresh empty table, pushed. *)
EmptyTable == [k \in {} |-> Nil]

NewTable(hp, s) ==
    [heap |-> Append(hp, EmptyTable), stack |-> Push(s, LTbl(Len(hp) + 1))]

(* state.raw_seti(i, n): t[n] = the value on top, which is popped. *)
RawSetI(hp, s, i, n) ==
    LET id == s[AbsIndex(s, i)].v
        x == s[Len(s)]
        tb == hp[id]
        tb2 == IF x.t = "nil"
               THEN [k \in DOMAIN tb \ {LInt(n)} |-> tb[k]]
               ELSE [k \in DOMAIN tb \cup {LInt(n)} |->
                        IF k = LInt(n) THEN x ELSE tb[k]]
    IN  [heap |-> [hp EXCEPT ![id] = tb2], stack |-> Pop(s, 1)]

(* state.push(x) of a primitive host value. *)
ToLuaPrim(h) ==
    CASE h.ty = "Integer" -> LInt(h.v)
      [] h.ty = "Number" -> LFlt(h.v)
      [] h.ty = "String" -> LStr(h.v)
      [] OTHER -> Nil

(* HashMap::insert and Vec::push. *)
EmptyMap == [k \in {} |-> Unit]

MapInsert(m, k, x) == [j \in DOMAIN m \cup {k} |-> IF j = k THEN x ELSE m[j]]

VecPush(vec, x) == Append(vec, x)

---------------------------------------------------------------------------
(* auto_cleanup!($state, $b): `out` is what running the block $b did: the  *)
(* stack it left, the way control left it and the value it carried.  The   *)
(* statements after `let result = $b;` run only when control falls out of  *)
(* the block's end.                                                        *)

Outcome(s, how, val) == [stack |-> s, exit |-> how, val |-> val]

AutoCleanup(top, out) ==
    IF out.exit = "normal"
    THEN Outcome(SetTop(out.stack, top), "normal", out.val)
    ELSE out

---------------------------------------------------------------------------
(* convert_arguments!(@unpack ...) for the selectors from `position` on:   *)
(* acc is the tuple built so far, rd the slots to_type was called on.      *)

(* Mutant: `position += 1` after the selector's unpack instead of before. *)
RECURSIVE UnpackFromLate(_, _, _, _, _, _)
UnpackFromLate(fs, s, base, position, acc, rd) ==
    IF position > Len(fs) THEN [r |-> Ok(acc), rd |-> rd]
    ELSE IF fs[position] = Wild
    THEN UnpackFromLate(fs, s, base, position + 1, Append(acc, Unit), rd)
    ELSE LET opt == ToType(fs[position], s, base + position - 1)
             rd2 == Append(rd, base + position - 1)
         IN  IF opt.some
             THEN UnpackFromLate(fs, s, base, position + 1, Append(acc, opt.val), rd2)
             ELSE [r |-> Err(position - 1), rd |-> rd2]

(* Mutant: a mismatch reported as the absolute slot, not the ordinal. *)
RECURSIVE UnpackFromAbs(_, _, _, _, _, _)
UnpackFromAbs(fs, s, base, position, acc, rd) ==
    IF position > Len(fs) THEN [r |-> Ok(acc), rd |-> rd]
    ELSE IF fs[position] = Wild
    THEN UnpackFromAbs(fs, s, base, position + 1, Append(acc, Unit), rd)
    ELSE LET opt == ToType(fs[position], s, base + position)
             rd2 == Append(rd, base + position)
         IN  IF opt.some
             THEN UnpackFromAbs(fs, s, base, position + 1, Append(acc, opt.val), rd2)
             ELSE [r |-> Err(base + position), rd |-> rd2]

(* Mutant: `@unpack _` contributes no component to the tuple. *)
RECURSIVE UnpackFromSkipWild(_, _, _, _, _, _)
UnpackFromSkipWild(fs, s, base, position, acc, rd) ==
    IF position > Len(fs) THEN [r |-> Ok(acc), rd |-> rd]
    ELSE IF fs[position] = Wild
    THEN UnpackFromSkipWild(fs, s, base, position + 1, acc, rd)
    ELSE LET opt == ToType(fs[position], s, base + position)
             rd2 == Append(rd, base + position)
         IN  IF opt.some
             THEN UnpackFromSkipWild(fs, s, base, position + 1,
                                     Append(acc, opt.val), rd2)
             ELSE [r |-> Err(position), rd |-> rd2]

RECURSIVE UnpackFrom(_, _, _, _, _, _)
UnpackFrom(fs, s, base, position, acc, rd) ==
    IF position > Len(fs) THEN [r |-> Ok(acc), rd |-> rd]
    ELSE IF fs[position] = Wild
    THEN UnpackFrom(fs, s, base, position + 1, Append(acc, Unit), rd)
    ELSE LET opt == ToType(fs[position], s, base + position)
             rd2 == Append(rd, base + position)
         IN  IF opt.some
             THEN UnpackFrom(fs, s, base, position + 1, Append(acc, opt.val), rd2)
             ELSE [r |-> Err(position), rd |-> rd2]

(* Mutant: underflow reported as `top`, without the + 1. *)
CollectUnderflowTop(isStrict, fs, s, top) ==
    LET quantity == Len(fs)
        base == GetTop(s) - quantity
    IN  IF base < 0 THEN [r |-> Err(top), rd |-> <<>>]
        ELSE IF isStrict /\ base > 0 THEN [r |-> Err(top), rd |-> <<>>]
        ELSE UnpackFrom(fs, s, base, 1, <<>>, <<>>)

(* Mutant: the `$strict && base > 0` check left out. *)
CollectNoOverflow(isStrict, fs, s, top) ==
    LET quantity == Len(fs)
        base == GetTop(s) - quantity
    IN  IF base < 0 THEN [r |-> Err(top + 1), rd |-> <<>>]
        ELSE UnpackFrom(fs, s, base, 1, <<>>, <<>>)

(* Mutant: the window taken from the bottom of the stack. *)
CollectFromBottom(isStrict, fs, s, top) ==
    LET quantity == Len(fs)
        base == GetTop(s) - quantity
    IN  IF base < 0 THEN [r |-> Err(top + 1), rd |-> <<>>]
        ELSE IF isStrict /\ base > 0 THEN [r |-> Err(top), rd |-> <<>>]
        ELSE UnpackFrom(fs, s, 0, 1, <<>>, <<>>)

(* The closure `collect` of convert_arguments!(@strict ...). *)
Collect(isStrict, fs, s, top) ==
    LET quantity == Len(fs)
        base == GetTop(s) - quantity
    IN  IF base < 0 THEN [r |-> Err(top + 1), rd |-> <<>>]
        ELSE IF isStrict /\ base > 0 THEN [r |-> Err(top), rd |-> <<>>]
        ELSE UnpackFrom(fs, s, base, 1, <<>>, <<>>)

(* Mutant: the scope guard winds the stack back to below the last slot    *)
(* of the window, consuming it.                                            *)
ConvertArgumentsConsume(isStrict, fs, s) ==
    LET top == GetTop(s)
        c == Collect(isStrict, fs, s, top)
        out == AutoCleanup(IF top > 0 THEN top - 1 ELSE top,
                           Outcome(s, "normal", c.r))
    IN  [stack |-> out.stack, r |-> out.val, rd |-> c.rd]

(* convert_arguments!(@strict $strict, $state, $($from),+) *)
ConvertArguments(isStrict, fs, s) ==
    LET top == GetTop(s)
        c == Collect(isStrict, fs, s, top)
        out == AutoCleanup(GetTop(s), Outcome(s, "normal", c.r))
    IN  [stack |-> out.stack, r |-> out.val, rd |-> c.rd]

---------------------------------------------------------------------------
(* lua_array_type: ToLua::to_lua, the loop over `vec` from element i on.   *)

(* Mutant: `idx += 1` after raw_seti, so that the keys start from 0. *)
RECURSIVE ToLuaFromZero(_, _, _, _, _)
ToLuaFromZero(hp, s, vec, i, n) ==
    IF i > Len(vec) THEN [heap |-> hp, stack |-> s]
    ELSE LET pushed == Push(s, ToLuaPrim(vec[i]))
             set == RawSetI(hp, pushed, -2, n)
         IN  ToLuaFromZero(set.heap, set.stack, vec, i + 1, n + 1)

(* Mutant: `idx += 1` left out of the loop, every element stored at 1. *)
RECURSIVE ToLuaFromSameKey(_, _, _, _, _)
ToLuaFromSameKey(hp, s, vec, i, n) ==
    IF i > Len(vec) THEN [heap |-> hp, stack |-> s]
    ELSE LET pushed == Push(s, ToLuaPrim(vec[i]))
             set == RawSetI(hp, pushed, -2, 1)
         IN  ToLuaFromSameKey(set.heap, set.stack, vec, i + 1, n)

RECURSIVE ToLuaFrom(_, _, _, _, _)
ToLuaFrom(hp, s, vec, i, n) ==
    IF i > Len(vec) THEN [heap |-> hp, stack |-> s]
    ELSE LET n2 == n + 1
             pushed == Push(s, ToLuaPrim(vec[i]))
             set == RawSetI(hp, pushed, -2, n2)
         IN  ToLuaFrom(set.heap, set.stack, vec, i + 1, n2)

ArrayToLua(hp, s, vec) ==
    LET nt == NewTable(hp, s)
    IN  ToLuaFrom(nt.heap, nt.stack, vec, 1, 0)

---------------------------------------------------------------------------
(* lua_userdata: meta_name, attach and ToLua::to_lua.  A metatable on the  *)
(* stack is a table value carrying its registry name.                      *)

MetaName(ud) == ud \o ".Rust"

LMt(name) == [t |-> "table", v |-> 0, mt |-> name]

NoMethods == [f \in {} |-> 0]
EmptyRegistry == [n \in {} |-> NoMethods]

(* state.new_metatable(name): pushes the registry's table of that name,    *)
(* creating it when there is none, and tells whether it created it.        *)
NewMetatable(reg, s, name) ==
    LET created == name \notin DOMAIN reg
    IN  [created |-> created,
         registry |-> IF created
                      THEN [n \in DOMAIN reg \cup {name} |->
                               IF n = name THEN NoMethods ELSE reg[n]]
                      ELSE reg,
         stack |-> Push(s, LMt(name))]

(* state.push_fn(f); state.set_field(-2, field) *)
SetMethod(reg, s, m) ==
    LET pushed == Push(s, LFn(m[2]))
        name == pushed[Len(pushed) - 1].mt
    IN  [registry |-> [reg EXCEPT ![name] = MapInsert(@, m[1], pushed[Len(pushed)].v)],
         stack |-> Pop(pushed, 1)]

RECURSIVE SetMethodsFrom(_, _, _, _)
SetMethodsFrom(reg, s, ms, i) ==
    IF i > Len(ms) THEN [registry |-> reg, stack |-> s]
    ELSE LET one == SetMethod(reg, s, ms[i])
         IN  SetMethodsFrom(one.registry, one.stack, ms, i + 1)

(* Mutant: the `if !created { panic!(...) }` left out. *)
AttachNoPanic(reg, s, ud, ms) ==
    LET mt == NewMetatable(reg, s, MetaName(ud))
        set == SetMethodsFrom(mt.registry, mt.stack, ms, 1)
    IN  [registry |-> set.registry,
         stack |-> Pop(set.stack, 1),
         exit |-> "normal"]

(* Mutant: `created` tested before the methods are installed. *)
AttachCheckFirst(reg, s, ud, ms) ==
    LET mt == NewMetatable(reg, s, MetaName(ud))
        set == SetMethodsFrom(mt.registry, mt.stack, ms, 1)
    IN  IF mt.created
        THEN [registry |-> set.registry, stack |-> Pop(set.stack, 1),
              exit |-> "normal"]
        ELSE [registry |-> reg, stack |-> Pop(mt.stack, 1), exit |-> "panic"]

Attach(reg, s, ud, ms) ==
    LET mt == NewMetatable(reg, s, MetaName(ud))
        set == SetMethodsFrom(mt.registry, mt.stack, ms, 1)
    IN  [registry |-> set.registry,
         stack |-> Pop(set.stack, 1),
         exit |-> IF mt.created THEN "normal" ELSE "panic"]

(* new_userdata_typed pushes a cell without a metatable and the value is   *)
(* written into it; set_metatable_from_registry gives the cell the         *)
(* registry's table of that name, which is nil when there is none.         *)
UserdataToLua(reg, s, ud, x) ==
    LET name == MetaName(ud)
    IN  Push(s, LUd(x, IF name \in DOMAIN reg THEN name ELSE ""))

(* state.test_userdata_typed::<T>(index, name): the cell at the slot when   *)
(* the slot holds a userdata whose metatable is the registry's table of    *)
(* that name.                                                              *)
TestUserdata(reg, s, i, name) ==
    /\ ValidIndex(s, i)
    /\ s[AbsIndex(s, i)].t = "userdata"
    /\ s[AbsIndex(s, i)].mt # ""
    /\ name \in DOMAIN reg
    /\ s[AbsIndex(s, i)].mt = name

(* Mutant: the cell is read without its metatable being compared. *)
UserdataFromLuaAnyCell(reg, s, ud, i) ==
    IF ValidIndex(s, i) /\ s[AbsIndex(s, i)].t = "userdata"
    THEN Some(HV(ud, s[AbsIndex(s, i)].v))
    ELSE None

(* lua_userdata: FromLua::from_lua(state, index) for $ud. *)
UserdataFromLua(reg, s, ud, i) ==
    IF TestUserdata(reg, s, i, MetaName(ud))
    THEN Some(HV(ud, s[AbsIndex(s, i)].v))
    ELSE None

---------------------------------------------------------------------------
(* Initial states: a host function is about to run on a stack holding its  *)
(* arguments; the Lua state may hold a table, or registered metatables.    *)

SeqsUpTo(S, n) == UNION {[1..k -> S] : k \in 0..n}

TableKeys == {LStr(1), LStr(2)} \cup {LInt(i) : i \in 1..MaxKey}
TableVals == {LInt(1), LInt(2), LStr(1)}
Tables ==
    UNION {[D -> TableVals] :
             D \in {D \in SUBSET TableKeys : Cardinality(D) <= MaxEntries}}

UserTypes == {"UserEnum", "Other"}
Methods == {<<>>, <<<<"get", 1>>>>, <<<<"get", 2>>, <<"set", 1>>>>}
MethodTables == {NoMethods, [f \in {"get"} |-> 1]}
Registries ==
    UNION {[{MetaName(u) : u \in D} -> MethodTables] : D \in SUBSET UserTypes}

(* The host function to run, with arguments it may be called on. *)
InitScope ==
    /\ op = "auto_cleanup"
    /\ stack \in SeqsUpTo({Nil, LInt(1)}, MaxStack)
    /\ heap = <<>>
    /\ registry = EmptyRegistry

InitConvert ==
    /\ op = "convert"
    /\ stack \in SeqsUpTo(PrimVals, MaxStack)
    /\ heap = <<>>
    /\ registry = EmptyRegistry

InitFromLua ==
    /\ op \in {"table_from_lua", "array_from_lua"}
    /\ \/ /\ stack = <<LInt(1), LTbl(1)>>
          /\ heap \in {<<tb>> : tb \in Tables}
       \/ /\ stack \in {<<>>, <<LStr(1)>>}
          /\ heap = <<>>
    /\ registry = EmptyRegistry

(* convert_arguments!(state, $name) on a table argument. *)
InitConvertTable ==
    /\ op = "convert_table"
    /\ \/ /\ stack \in {<<LTbl(1)>>, <<LInt(1), LTbl(1)>>}
          /\ heap \in {<<tb>> : tb \in Tables}
       \/ /\ stack \in {<<>>, <<LStr(1)>>}
          /\ heap = <<>>
    /\ registry = EmptyRegistry

InitToLua ==
    /\ op = "array_to_lua"
    /\ stack \in SeqsUpTo({LInt(1)}, 1)
    /\ heap \in {<<>>, <<EmptyTable>>}
    /\ registry = EmptyRegistry

InitUserdata ==
    /\ op \in {"attach", "userdata_to_lua"}
    /\ stack \in SeqsUpTo({Nil}, 1)
    /\ heap = <<>>
    /\ registry \in Registries

Init ==
    /\ \/ InitScope \/ InitConvert \/ InitFromLua \/ InitConvertTable
       \/ InitToLua \/ InitUserdata
    /\ pc = "ready"
    /\ stack0 = <<>>
    /\ exit = "none"
    /\ res = NoRes
    /\ hostVec = <<>>
    /\ steps = 0 /\ acTop = 0 /\ blockRes = 0
    /\ strict = FALSE /\ sels = <<>> /\ reads = <<>>
    /\ index = 0 /\ ktype = "" /\ vtype = "" /\ coll = <<>> /\ conv = NoRes
    /\ left = {} /\ idx = 0 /\ getis = <<>>
    /\ udType = "" /\ udVal = 0 /\ loadType = "" /\ methods = <<>>
    /\ attaches = 0 /\ registry0 = EmptyRegistry
    /\ acTop2 = -1 /\ innerExit = "" /\ outer = NoRes
    /\ heap0 = heap /\ visited = <<>> /\ converted = <<>>

---------------------------------------------------------------------------
(* A host function whose body is auto_cleanup!(state, { ... }). *)

ScopeEnter ==
    /\ pc = "ready" /\ op = "auto_cleanup"
    /\ pc' = "block"
    /\ stack0' = stack
    /\ acTop' = GetTop(stack)
    /\ UNCHANGED <<udVars, nestVars, ghostVars, stack, heap, op, exit, res, registry, hostVec, steps,
                   blockRes, convVars, loopVars>>

(* Statements of the user's block: pushes and pops. *)
BlockPush ==
    /\ pc \in {"block", "inner"}
    /\ steps < MaxBlockOps
    /\ \E x \in {Nil, LInt(1)} : stack' = Push(stack, x)
    /\ steps' = steps + 1
    /\ UNCHANGED <<udVars, nestVars, ghostVars, heap, pc, op, stack0, exit, res, registry, hostVec, acTop,
                   blockRes, convVars, loopVars>>

BlockPop ==
    /\ pc \in {"block", "inner"}
    /\ steps < MaxBlockOps
    /\ Len(stack) > 0
    /\ stack' = Pop(stack, 1)
    /\ steps' = steps + 1
    /\ UNCHANGED <<udVars, nestVars, ghostVars, heap, pc, op, stack0, exit, res, registry, hostVec, acTop,
                   blockRes, convVars, loopVars>>

(* Control leaves the block: by falling out of its end with a value, by a  *)
(* `return` of a value written in the block, which leaves the enclosing    *)
(* function, or by a panic raised in the block, which carries no value.    *)
Val(r) == [tag |-> "Val", tuple |-> <<>>, pos |-> r]

BlockLeave(how) ==
    /\ pc = "block"
    /\ \E r \in 1..2 :
         LET out == AutoCleanup(acTop, Outcome(stack, how, Val(r)))
         IN  /\ blockRes' = r
             /\ stack' = out.stack
             /\ exit' = out.exit
             /\ res' = IF how = "panic" THEN NoRes ELSE out.val
    /\ pc' = "done"
    /\ UNCHANGED <<udVars, nestVars, ghostVars, heap, op, stack0, registry, hostVec, steps, acTop,
                   convVars, loopVars>>

BlockEnd == BlockLeave("normal")
BlockReturn == BlockLeave("return")
BlockPanic == BlockLeave("panic")

(* The block holds a second auto_cleanup!(state, { ... }) of its own. *)
InnerEnter ==
    /\ pc = "block" /\ acTop2 = -1
    /\ pc' = "inner"
    /\ acTop2' = GetTop(stack)
    /\ UNCHANGED <<udVars, ghostVars, stack, heap, op, stack0, exit, res, registry,
                   hostVec, scopeVars, convVars, loopVars, innerExit, outer>>

(* Control leaves the inner block.  Falling out of its end runs the inner  *)
(* set_top and goes on in the outer block; a `return` or a panic leaves    *)
(* the enclosing function, past the statements of both expansions.         *)
InnerLeave(how) ==
    /\ pc = "inner"
    /\ innerExit' = how
    /\ \E r \in 1..2 :
         LET inner == AutoCleanup(acTop2, Outcome(stack, how, Val(r)))
             out == AutoCleanup(acTop, inner)
         IN  IF inner.exit = "normal"
             THEN /\ stack' = inner.stack
                  /\ pc' = "block"
                  /\ UNCHANGED <<exit, res, blockRes>>
             ELSE /\ stack' = out.stack
                  /\ exit' = out.exit
                  /\ res' = IF how = "panic" THEN NoRes ELSE out.val
                  /\ blockRes' = r
                  /\ pc' = "done"
    /\ UNCHANGED <<udVars, ghostVars, heap, op, stack0, registry, hostVec, steps,
                   acTop, convVars, loopVars, acTop2, outer>>

InnerEnd == InnerLeave("normal")
InnerReturn == InnerLeave("return")
InnerPanic == InnerLeave("panic")

---------------------------------------------------------------------------
(* A host function calling convert_arguments on its arguments. *)

Convert ==
    /\ pc = "ready" /\ op = "convert"
    /\ \E b \in BOOLEAN, fs \in SeqsUpTo(Selectors, MaxSel) \ {<<>>} :
         LET c == ConvertArguments(b, fs, stack)
         IN  /\ strict' = b
             /\ sels' = fs
             /\ stack' = c.stack
             /\ res' = c.r
             /\ reads' = c.rd
    /\ pc' = "done"
    /\ stack0' = stack
    /\ exit' = "normal"
    /\ UNCHANGED <<udVars, nestVars, ghostVars, heap, op, registry, hostVec, scopeVars, loopVars>>

---------------------------------------------------------------------------
(* A host function calling convert_arguments!(@strict b, state, $name) for *)
(* a lua_table_type $name: `collect` up to the selector's to_type, which   *)
(* is the from_lua below, and from its return to the end of the expansion. *)

ConvertTable ==
    /\ pc = "ready" /\ op = "convert_table"
    /\ \E b \in BOOLEAN :
         LET top == GetTop(stack)
             base == GetTop(stack) - 1
         IN  /\ strict' = b
             /\ sels' = <<"Table">>
             /\ acTop' = top
             /\ IF base < 0
                THEN outer' = Err(top + 1) /\ pc' = "done" /\ UNCHANGED index
                ELSE IF b /\ base > 0
                THEN outer' = Err(top) /\ pc' = "done" /\ UNCHANGED index
                ELSE outer' = NoRes /\ pc' = "unpack" /\ index' = base + 1
    /\ stack0' = stack
    /\ exit' = "normal"
    /\ UNCHANGED <<udVars, ghostVars, stack, heap, op, res, registry, hostVec,
                   steps, blockRes, reads, ktype, vtype, coll, conv, left, idx,
                   getis, acTop2, innerExit>>

ConvertTableLeave ==
    /\ pc = "done" /\ op = "convert_table" /\ outer = NoRes
    /\ LET r == IF res.some THEN Ok(<<res.val>>) ELSE Err(1)
           out == AutoCleanup(acTop, Outcome(stack, "normal", r))
       IN  /\ outer' = out.val
           /\ stack' = out.stack
    /\ UNCHANGED <<udVars, ghostVars, heap, pc, op, stack0, exit, res, registry,
                   hostVec, scopeVars, convVars, loopVars, acTop2, innerExit>>

---------------------------------------------------------------------------
(* lua_table_type: FromLua::from_lua(state, index) for $name<$key, $val>.  *)

TableEnter ==
    /\ \/ pc = "ready" /\ op = "table_from_lua"
       \/ pc = "unpack"
    /\ \E i \in (IF pc = "unpack" THEN {index} ELSE {-1, 1}),
          kt \in {"String", "Integer"}, vt \in {"Integer", "String"} :
         /\ ktype' = kt
         /\ vtype' = vt
         /\ IF ~IsTable(stack, i)
            THEN /\ res' = None
                 /\ pc' = "done"
                 /\ UNCHANGED <<stack, index, coll, left>>
            ELSE /\ coll' = EmptyMap
                 /\ index' = AbsIndex(stack, i)
                 /\ stack' = Push(stack, Nil)
                 /\ left' = DOMAIN TableAt(heap, stack, i)
                 /\ pc' = "tbl_next"
                 /\ UNCHANGED res
    /\ stack0' = stack
    /\ exit' = "normal"
    /\ UNCHANGED <<udVars, nestVars, ghostVars, heap, op, registry, hostVec, scopeVars, convVars, conv, idx,
                   getis>>

(* `while state.next(index)`: next takes the key on top of the stack and   *)
(* yields the entry that follows it in the table's enumeration order, an   *)
(* order of its own which `visited` records as far as it has been shown;   *)
(* the marker nil stands before the first entry.  A key that is not one    *)
(* of the table's is an error raised by the engine.                        *)
TopKey(s) == s[Len(s)]
KnownKey(key) == key = Nil \/ \E j \in 1..Len(visited) : visited[j] = key
KeyPos(key) ==
    IF key = Nil THEN 0 ELSE CHOOSE j \in 1..Len(visited) : visited[j] = key

TableNext ==
    /\ pc = "tbl_next"
    /\ LET j == KeyPos(TopKey(stack))
       IN  IF ~KnownKey(TopKey(stack))
           THEN /\ exit' = "panic"
                /\ pc' = "done"
                /\ UNCHANGED <<stack, res, left, visited>>
           ELSE IF j < Len(visited)
           THEN /\ stack' = NextEntry(heap, stack, index, visited[j + 1])
                /\ pc' = "tbl_conv"
                /\ UNCHANGED <<exit, res, left, visited>>
           ELSE \/ /\ left = {}
                   /\ stack' = NextEnd(stack)
                   /\ res' = Some(coll)
                   /\ pc' = "done"
                   /\ UNCHANGED <<exit, left, visited>>
                \/ \E k \in left :
                     /\ stack' = NextEntry(heap, stack, index, k)
                     /\ left' = left \ {k}
                     /\ visited' = Append(visited, k)
                     /\ pc' = "tbl_conv"
                     /\ UNCHANGED <<exit, res>>
    /\ UNCHANGED <<udVars, nestVars, heap, op, stack0, registry, hostVec,
                   scopeVars, convVars, index, ktype, vtype, coll, conv, idx,
                   getis, heap0, converted>>

(* Mutant: the entry converted in strict mode. *)
TableConvertStrict ==
    /\ pc = "tbl_conv"
    /\ LET c == ConvertArguments(TRUE, <<ktype, vtype>>, stack)
       IN  /\ stack' = c.stack
           /\ conv' = c.r
           /\ pc' = IF c.r.tag = "Ok" THEN "tbl_ok" ELSE "tbl_err"
    /\ converted' = Append(converted, stack[Len(stack) - 1])
    /\ UNCHANGED <<udVars, nestVars, heap, op, stack0, exit, res, registry,
                   hostVec, scopeVars, convVars, index, ktype, vtype, coll,
                   left, idx, getis, heap0, visited>>

(* convert_arguments!(@strict false, state, $key, $val) *)
TableConvert ==
    /\ pc = "tbl_conv"
    /\ LET c == ConvertArguments(FALSE, <<ktype, vtype>>, stack)
       IN  /\ stack' = c.stack
           /\ conv' = c.r
           /\ pc' = IF c.r.tag = "Ok" THEN "tbl_ok" ELSE "tbl_err"
    /\ converted' = Append(converted, stack[Len(stack) - 1])
    /\ UNCHANGED <<udVars, nestVars, heap, op, stack0, exit, res, registry,
                   hostVec, scopeVars, convVars, index, ktype, vtype, coll,
                   left, idx, getis, heap0, visited>>

(* Mutant: the key popped with the value and the marker pushed again, so  *)
(* that the enumeration starts over.                                       *)
TableOkRestart ==
    /\ pc = "tbl_ok"
    /\ coll' = MapInsert(coll, conv.tuple[1], conv.tuple[2])
    /\ stack' = Push(Pop(stack, 2), Nil)
    /\ pc' = "tbl_next"
    /\ UNCHANGED <<udVars, nestVars, ghostVars, heap, op, stack0, exit, res,
                   registry, hostVec, scopeVars, convVars, index, ktype, vtype,
                   conv, left, idx, getis>>

(* Mutant: key and value both popped after the insert. *)
TableOkPopTwo ==
    /\ pc = "tbl_ok"
    /\ coll' = MapInsert(coll, conv.tuple[1], conv.tuple[2])
    /\ stack' = Pop(stack, 2)
    /\ pc' = "tbl_next"
    /\ UNCHANGED <<udVars, nestVars, ghostVars, heap, op, stack0, exit, res,
                   registry, hostVec, scopeVars, convVars, index, ktype, vtype,
                   conv, left, idx, getis>>

(* map.insert(name, value); state.pop(1); *)
TableOk ==
    /\ pc = "tbl_ok"
    /\ coll' = MapInsert(coll, conv.tuple[1], conv.tuple[2])
    /\ stack' = Pop(stack, 1)
    /\ pc' = "tbl_next"
    /\ UNCHANGED <<udVars, nestVars, ghostVars, heap, op, stack0, exit, res, registry, hostVec, scopeVars,
                   convVars, index, ktype, vtype, conv, left, idx, getis>>

(* Mutant: only one slot popped before `return None`. *)
TableErrPopOne ==
    /\ pc = "tbl_err"
    /\ stack' = Pop(stack, 1)
    /\ res' = None
    /\ pc' = "done"
    /\ UNCHANGED <<udVars, nestVars, ghostVars, heap, op, stack0, exit, registry, hostVec, scopeVars,
                   convVars, loopVars>>

(* Mutant: a malformed entry is skipped and the iteration goes on. *)
TableErrSkip ==
    /\ pc = "tbl_err"
    /\ stack' = Pop(stack, 1)
    /\ pc' = "tbl_next"
    /\ UNCHANGED <<udVars, nestVars, ghostVars, heap, op, stack0, exit, res, registry, hostVec, scopeVars,
                   convVars, loopVars>>

(* state.pop(2); return None; *)
TableErr ==
    /\ pc = "tbl_err"
    /\ stack' = Pop(stack, 2)
    /\ res' = None
    /\ pc' = "done"
    /\ UNCHANGED <<udVars, nestVars, ghostVars, heap, op, stack0, exit, registry, hostVec, scopeVars,
                   convVars, loopVars>>

---------------------------------------------------------------------------
(* lua_array_type: FromLua::from_lua(state, index) for $name<$val>, called *)
(* on an argument or on the table to_lua has just pushed.                  *)

ArrayEnter ==
    /\ \/ pc = "ready" /\ op = "array_from_lua"
       \/ pc = "pushed"
    /\ \E i \in {-1, 1}, vt \in PrimTypes :
         /\ pc = "pushed" => i = -1 /\ vt = vtype
         /\ vtype' = vt
         /\ IF ~IsTable(stack, i)
            THEN /\ res' = None
                 /\ pc' = "done"
                 /\ UNCHANGED <<index, coll, idx>>
            ELSE /\ coll' = <<>>
                 /\ index' = AbsIndex(stack, i)
                 /\ idx' = 1
                 /\ pc' = "arr_geti"
                 /\ UNCHANGED res
    /\ op' = IF pc = "pushed" THEN "roundtrip" ELSE "array_from_lua"
    /\ stack0' = stack
    /\ exit' = "normal"
    /\ UNCHANGED <<udVars, nestVars, ghostVars, stack, heap, registry, hostVec, scopeVars, convVars, ktype,
                   conv, left, getis>>

(* Mutant: the nil test made on the slot `index` instead of the top. *)
ArrayGetINilAtIndex ==
    /\ pc = "arr_geti"
    /\ LET got == GetI(heap, stack, index, idx)
       IN  IF IsNil(got, index)
           THEN /\ stack' = Pop(got, 1)
                /\ res' = Some(coll)
                /\ pc' = "done"
           ELSE /\ stack' = got
                /\ pc' = "arr_conv"
                /\ UNCHANGED res
    /\ getis' = Append(getis, idx)
    /\ UNCHANGED <<udVars, nestVars, ghostVars, heap, op, stack0, exit, registry, hostVec, scopeVars, convVars,
                   index, ktype, vtype, coll, conv, left, idx>>

(* state.geti(index, idx); if state.is_nil(-1) { state.pop(1); break; } *)
ArrayGetI ==
    /\ pc = "arr_geti"
    /\ LET got == GetI(heap, stack, index, idx)
       IN  IF IsNil(got, -1)
           THEN /\ stack' = Pop(got, 1)
                /\ res' = Some(coll)
                /\ pc' = "done"
           ELSE /\ stack' = got
                /\ pc' = "arr_conv"
                /\ UNCHANGED res
    /\ getis' = Append(getis, idx)
    /\ UNCHANGED <<udVars, nestVars, ghostVars, heap, op, stack0, exit, registry, hostVec, scopeVars, convVars,
                   index, ktype, vtype, coll, conv, left, idx>>

(* The rest of the loop body: the element's convert_arguments, then        *)
(* vec.push and pop(1), or pop(1) and return None.                         *)
ArrayConvert ==
    /\ pc = "arr_conv"
    /\ LET c == ConvertArguments(FALSE, <<vtype>>, stack)
       IN  /\ conv' = c.r
           /\ stack' = Pop(c.stack, 1)
           /\ IF c.r.tag = "Ok"
              THEN /\ coll' = VecPush(coll, c.r.tuple[1])
                   /\ idx' = idx + 1
                   /\ pc' = "arr_geti"
                   /\ UNCHANGED res
              ELSE /\ res' = None
                   /\ pc' = "done"
                   /\ UNCHANGED <<coll, idx>>
    /\ UNCHANGED <<udVars, nestVars, ghostVars, heap, op, stack0, exit, registry, hostVec, scopeVars, convVars,
                   index, ktype, vtype, left, getis>>

(* lua_array_type: ToLua::to_lua(&self, state) on a host sequence. *)
HostVals(ty) ==
    CASE ty = "Integer" -> {HV("Integer", 1), HV("Integer", 2)}
      [] ty = "Number" -> {HV("Number", 2), HV("Number", 3)}
      [] ty = "String" -> {HV("String", 1), HV("String", 2)}

ArrayPush ==
    /\ pc = "ready" /\ op = "array_to_lua"
    /\ \E vt \in PrimTypes : \E vec \in SeqsUpTo(HostVals(vt), MaxVec) :
         LET r == ArrayToLua(heap, stack, vec)
         IN  /\ vtype' = vt
             /\ hostVec' = vec
             /\ heap' = r.heap
             /\ stack' = r.stack
    /\ pc' = "pushed"
    /\ stack0' = stack
    /\ exit' = "normal"
    /\ UNCHANGED <<udVars, nestVars, ghostVars, op, res, registry, scopeVars, convVars, index, ktype, coll, conv,
                   left, idx, getis>>

---------------------------------------------------------------------------
(* lua_userdata: $ud::attach(&mut state), state.push(ud) and               *)
(* state.to_type::<$ud>(index).  A host function may attach several types  *)
(* in a row; a panic ends it.                                              *)

AttachType ==
    /\ op = "attach"
    /\ \/ pc = "ready"
       \/ pc = "done" /\ exit = "normal" /\ attaches < MaxAttach
    /\ \E ud \in UserTypes, ms \in Methods :
         LET r == Attach(registry, stack, ud, ms)
         IN  /\ udType' = ud
             /\ methods' = ms
             /\ registry' = r.registry
             /\ stack' = r.stack
             /\ exit' = r.exit
    /\ attaches' = attaches + 1
    /\ registry0' = registry
    /\ pc' = "done"
    /\ stack0' = stack
    /\ UNCHANGED <<nestVars, ghostVars, heap, op, res, hostVec, scopeVars, convVars, loopVars, udVal,
                   loadType>>

UserdataPush ==
    /\ pc = "ready" /\ op = "userdata_to_lua"
    /\ \E ud \in UserTypes, x \in 1..2 :
         /\ udType' = ud
         /\ udVal' = x
         /\ stack' = UserdataToLua(registry, stack, ud, x)
    /\ pc' = "done"
    /\ stack0' = stack
    /\ exit' = "normal"
    /\ UNCHANGED <<nestVars, ghostVars, heap, op, res, registry, hostVec, scopeVars, convVars,
                   loopVars, loadType, methods, attaches, registry0>>

(* state.to_type::<U>(i) after the push: i = -1 is the cell, i = 1 the     *)
(* slot below it when there is one.                                        *)
UserdataLoad ==
    /\ pc = "done" /\ op = "userdata_to_lua"
    /\ \E u \in UserTypes, i \in {-1, 1} :
         /\ loadType' = u
         /\ index' = AbsIndex(stack, i)
         /\ res' = UserdataFromLua(registry, stack, u, i)
    /\ op' = "userdata_load"
    /\ stack0' = stack
    /\ UNCHANGED <<nestVars, ghostVars, stack, heap, pc, exit, registry, hostVec, scopeVars, convVars,
                   ktype, vtype, coll, conv, left, idx, getis, udType, udVal,
                   methods, attaches, registry0>>

---------------------------------------------------------------------------

Next ==
    \/ ScopeEnter
    \/ BlockPush
    \/ BlockPop
    \/ BlockEnd
    \/ BlockReturn
    \/ BlockPanic
    \/ InnerEnter
    \/ InnerEnd
    \/ InnerReturn
    \/ InnerPanic
    \/ Convert
    \/ ConvertTable
    \/ ConvertTableLeave
    \/ TableEnter
    \/ TableNext
    \/ TableConvert
    \/ TableOk
    \/ TableErr
    \/ ArrayEnter
    \/ ArrayGetI
    \/ ArrayConvert
    \/ ArrayPush
    \/ AttachType
    \/ UserdataPush
    \/ UserdataLoad

Spec == Init /\ [][Next]_vars

(* A host function that calls from_lua of a lua_table_type and runs it to  *)
(* its return: the host thread keeps executing the loop's statements.      *)
InitTable == Init /\ op = "table_from_lua"

NextTable ==
    \/ TableEnter
    \/ TableNext
    \/ TableConvert
    \/ TableOk
    \/ TableErr

SpecTable == InitTable /\ [][NextTable]_vars /\ WF_vars(NextTable)

---------------------------------------------------------------------------
(* Properties. *)

H0 == Len(stack0)
ConvertDone == pc = "done" /\ op = "convert"
ScopeDone == pc = "done" /\ op = "auto_cleanup"

(* Selector p is satisfied by slot i of the entry stack. *)
SlotOk(p, i) == sels[p] = Wild \/ Matches(sels[p], stack0[i])

(* The tuple the selectors describe, read from the window above `base`. *)
TupleAt(base) ==
    [p \in 1..Len(sels) |->
        IF sels[p] = Wild THEN Unit ELSE FromLuaPrim(sels[p], stack0[base + p])]

(* The slots of the non-wildcard selectors 1..n, in selector order. *)
RECURSIVE SlotsUpTo(_, _)
SlotsUpTo(base, n) ==
    IF n = 0 THEN <<>>
    ELSE IF sels[n] = Wild THEN SlotsUpTo(base, n - 1)
    ELSE Append(SlotsUpTo(base, n - 1), base + n)

(* C1: once a function whose body is an auto_cleanup block has been left,  *)
(* by the block's end, by a return written in the block or by a panic,     *)
(* the stack has the height recorded at entry, and the block's value is    *)
(* what the function yields.                                               *)
C1_RestoredOnEveryExit ==
    ScopeDone =>
        /\ Len(stack) = Len(stack0)
        /\ exit # "panic" => res = Val(blockRes)

(* C13: when the scope nested in an auto_cleanup block has failed, the      *)
(* stack has the outer scope's recorded height once the host function is   *)
(* left too, whatever the inner block had pushed.                          *)
InnerFailed == innerExit \in {"return", "panic"}

C13_NestedRestored ==
    (ScopeDone /\ InnerFailed) => Len(stack) = acTop

(* The nesting the claim gives as its example: the entry conversion of a   *)
(* table iteration run for a convert_arguments fails, and the outer        *)
(* convert_arguments returns Err(1) at its entry height.                   *)
ConvertTableDone == pc = "done" /\ op = "convert_table" /\ outer # NoRes

C13_ExampleRestored ==
    ConvertTableDone => stack = stack0 /\ Len(stack) = acTop

C13_ExampleWitness ==
    /\ ConvertTableDone
    /\ conv.tag = "Err" /\ outer = Err(1)
    /\ strict /\ DOMAIN coll # {}

(* C2: a strict call on a stack of exactly L matching values returns Ok    *)
(* with the value of slot p as component p, and leaves the height as it    *)
(* was.                                                                    *)
C2_StrictExactOk ==
    (ConvertDone /\ strict /\ H0 = Len(sels)
        /\ \A p \in 1..Len(sels) : SlotOk(p, p))
    => /\ res = Ok(TupleAt(0))
       /\ Len(stack) = H0

C2_Witness ==
    /\ ConvertDone /\ strict /\ H0 = Len(sels) /\ H0 = 3
    /\ sels = <<"Integer", "String", "Number">>
    /\ res.tag = "Ok"
    /\ res.tuple[1] = HV("Integer", 2)

(* C3: with fewer values than selectors the call fails with top + 1 in     *)
(* either mode, whatever the values are, and converts no slot.             *)
C3_UnderflowTopPlusOne ==
    (ConvertDone /\ H0 < Len(sels))
    => /\ res = Err(H0 + 1)
       /\ reads = <<>>

C3_Witness ==
    /\ ConvertDone /\ ~strict /\ H0 = 2 /\ Len(sels) = 3
    /\ res = Err(3)

(* C4: with more values than selectors a strict call fails with top and    *)
(* converts no slot; a permissive call fails only when a slot of its       *)
(* window does not convert.                                                *)
C4_OverflowStrictOnly ==
    (ConvertDone /\ H0 > Len(sels))
    => LET base == H0 - Len(sels)
       IN  /\ strict => res = Err(H0) /\ reads = <<>>
           /\ ~strict =>
                (res.tag = "Err" <=> \E p \in 1..Len(sels) : ~SlotOk(p, base + p))

C4_Witness ==
    /\ ConvertDone /\ strict /\ H0 = 3 /\ Len(sels) = 2
    /\ \A p \in 1..2 : SlotOk(p, 1 + p)
    /\ res = Err(3)

C4_WitnessPermissive ==
    /\ ConvertDone /\ ~strict /\ H0 = 3 /\ Len(sels) = 2
    /\ res.tag = "Ok"

(* C5: when the arity check passes and some selector's slot does not       *)
(* convert, the call fails with the smallest such ordinal p, wildcards     *)
(* counted; the slots converted are those of the non-wildcard selectors    *)
(* up to p and no other, and no tuple is returned.                         *)
ArityOk == IF strict THEN H0 = Len(sels) ELSE H0 >= Len(sels)

C5_FirstMismatch ==
    (ConvertDone /\ ArityOk)
    => LET base == H0 - Len(sels)
           bad == {p \in 1..Len(sels) : ~SlotOk(p, base + p)}
       IN  bad # {} =>
             LET p == CHOOSE q \in bad : \A q2 \in bad : q <= q2
             IN  /\ res = Err(p)
                 /\ reads = SlotsUpTo(base, p)
                 /\ res.tuple = <<>>

C5_Witness ==
    /\ ConvertDone /\ ~strict /\ H0 = 3 /\ Len(sels) = 3
    /\ sels[1] = Wild
    /\ ~SlotOk(2, 2) /\ ~SlotOk(3, 3)
    /\ res = Err(2)
    /\ reads = <<2>>

C5_WitnessWindow ==
    /\ ConvertDone /\ ~strict /\ H0 = 3 /\ Len(sels) = 2
    /\ SlotOk(1, 2) /\ ~SlotOk(2, 3)
    /\ res = Err(2)

(* The table from_lua was called on, once `index` is resolved. *)
Tb0 == heap[stack0[index].v]
FromLuaOnTable(o) == pc = "done" /\ op = o /\ index > 0

EntryOk(k) == Matches(ktype, k) /\ Matches(vtype, Tb0[k])
ElemOk(n) == Matches(vtype, Tb0[LInt(n)])

(* The smallest positive integer key the table does not hold. *)
FirstGap ==
    CHOOSE n \in 1..(Cardinality(DOMAIN Tb0) + 1) :
        /\ LInt(n) \notin DOMAIN Tb0
        /\ \A j \in 1..(n - 1) : LInt(j) \in DOMAIN Tb0

(* C6: an operation that has completed, with success or failure, leaves    *)
(* the stack as high as at its entry plus what it produces: nothing for    *)
(* convert_arguments, the two from_lua and attach, one value for the       *)
(* sequence's to_lua and for the userdata's to_lua.                        *)
C6_HeightContract ==
    /\ (pc = "done" /\ op \in {"convert", "table_from_lua", "array_from_lua",
                               "roundtrip", "attach"})
         => Len(stack) = H0
    /\ (pc = "pushed" /\ op = "array_to_lua") => Len(stack) = H0 + 1
    /\ (pc = "done" /\ op = "userdata_to_lua") => Len(stack) = H0 + 1

C6_Witness ==
    /\ FromLuaOnTable("table_from_lua")
    /\ res = None
    /\ Cardinality(DOMAIN coll) = 1
    /\ Len(stack) = 2

C6_WitnessAttachPanic ==
    pc = "done" /\ op = "attach" /\ exit = "panic" /\ Len(stack) = 1

(* C7: when an entry of the table does not convert (a key or a value for   *)
(* the map, an element before the first gap for the sequence), from_lua    *)
(* yields None, wherever in the iteration that entry is met.               *)
C7_MalformedEntryNone ==
    /\ (FromLuaOnTable("table_from_lua") /\ \E k \in DOMAIN Tb0 : ~EntryOk(k))
         => res = None
    /\ (FromLuaOnTable("array_from_lua") /\ \E n \in 1..(FirstGap - 1) : ~ElemOk(n))
         => res = None

C7_Witness ==
    /\ FromLuaOnTable("table_from_lua")
    /\ Cardinality(DOMAIN Tb0) = 3
    /\ Cardinality({k \in DOMAIN Tb0 : ~EntryOk(k)}) = 1
    /\ Cardinality(DOMAIN coll) = 2
    /\ res = None

C7_WitnessArray ==
    /\ FromLuaOnTable("array_from_lua")
    /\ FirstGap = 4
    /\ ElemOk(1) /\ ElemOk(2) /\ ~ElemOk(3)
    /\ Len(coll) = 2
    /\ res = None

(* C8: when every key and every value of the table converts, the map's     *)
(* from_lua yields Some(map) where map holds, for each entry of the table  *)
(* and for nothing else, the converted key with the converted value, in    *)
(* whatever order next enumerates the keys.                                *)
C8_MapEqualsTable ==
    (FromLuaOnTable("table_from_lua") /\ \A k \in DOMAIN Tb0 : EntryOk(k))
    => /\ res.some
       /\ DOMAIN res.val = {FromLuaPrim(ktype, k) : k \in DOMAIN Tb0}
       /\ \A k \in DOMAIN Tb0 :
            res.val[FromLuaPrim(ktype, k)] = FromLuaPrim(vtype, Tb0[k])

C8_Witness ==
    /\ FromLuaOnTable("table_from_lua")
    /\ ktype = "String" /\ vtype = "Integer"
    /\ DOMAIN Tb0 = {LStr(1), LStr(2)}
    /\ Tb0[LStr(1)] = LInt(1) /\ Tb0[LStr(2)] = LInt(2)
    /\ res.some
    /\ res.val[HV("String", 2)] = HV("Integer", 2)

(* C9: the sequence's from_lua reads the keys 1, 2, ... in order and       *)
(* nothing past the first absent key k; when the elements before k         *)
(* convert, it yields the k - 1 of them in key order, whatever the table   *)
(* holds at keys greater than k.                                           *)
C9_StopsAtFirstGap ==
    FromLuaOnTable("array_from_lua")
    => /\ Len(getis) <= FirstGap
       /\ \A j \in 1..Len(getis) : getis[j] = j
       /\ (\A n \in 1..(FirstGap - 1) : ElemOk(n))
            => /\ res.some
               /\ Len(getis) = FirstGap
               /\ res.val = [n \in 1..(FirstGap - 1) |->
                                FromLuaPrim(vtype, Tb0[LInt(n)])]

C9_Witness ==
    /\ FromLuaOnTable("array_from_lua")
    /\ vtype = "Integer"
    /\ DOMAIN Tb0 = {LInt(1), LInt(2), LInt(4)}
    /\ Tb0[LInt(4)] = LStr(1)
    /\ res = Some(<<HV("Integer", 2), HV("Integer", 1)>>)
    /\ getis = <<1, 2, 3>>

(* C10: to_lua of a host sequence followed by from_lua of the table it     *)
(* pushed yields Some of the same sequence.                                *)
C10_RoundTrip ==
    (pc = "done" /\ op = "roundtrip") => res = Some(hostVec)

C10_Witness ==
    /\ pc = "done" /\ op = "roundtrip"
    /\ hostVec = <<HV("Number", 3), HV("Number", 2), HV("Number", 3)>>
    /\ res = Some(hostVec)
    /\ Len(stack) = 2

(* The tags of a registry, and the host function's attach having ended. *)
Tags(reg) == DOMAIN reg
AttachDone == pc = "done" /\ op = "attach"

(* C11: an attach succeeds exactly when its type's tag was not registered  *)
(* when it was called; it then registers the tag, so a later attach of     *)
(* the same type panics; the tags registered for other types play no part. *)
C11_AttachOncePerTag ==
    AttachDone
    => /\ exit \in {"normal", "panic"}
       /\ (exit = "normal") <=> (MetaName(udType) \notin Tags(registry0))
       /\ MetaName(udType) \in Tags(registry)
       /\ Tags(registry) = Tags(registry0) \cup {MetaName(udType)}

(* A second attach of the same type panics: only that tag is registered    *)
(* and the first attach of the host function succeeded.                    *)
C11_Witness ==
    /\ AttachDone /\ attaches = 2 /\ exit = "panic"
    /\ Tags(registry) = {MetaName(udType)}

(* The first attach of a type succeeds while another tag is registered. *)
C11_WitnessDistinct ==
    /\ AttachDone /\ exit = "normal"
    /\ udType = "UserEnum"
    /\ Tags(registry0) = {MetaName("Other")}

(* The userdata pushed by to_lua has been loaded back. *)
Loaded == pc = "done" /\ op = "userdata_load"
CellIndex == Len(stack)

(* C12: a value of a registered type T pushed as userdata loads back as T  *)
(* to Some of the same value; loaded as another registered type, or from   *)
(* a slot that holds no userdata, the result is None.                      *)
C12_StoreLoad ==
    (Loaded /\ MetaName(udType) \in Tags(registry))
    => /\ (index = CellIndex /\ loadType = udType)
            => res = Some(HV(udType, udVal))
       /\ (index = CellIndex /\ loadType # udType
             /\ MetaName(loadType) \in Tags(registry))
            => res = None
       /\ (index # CellIndex /\ MetaName(loadType) \in Tags(registry))
            => res = None

C12_Witness ==
    /\ Loaded /\ index = CellIndex
    /\ Tags(registry) = {MetaName("UserEnum"), MetaName("Other")}
    /\ udType = "UserEnum" /\ loadType = "UserEnum" /\ udVal = 2
    /\ res = Some(HV("UserEnum", 2))

C12_WitnessOtherType ==
    /\ Loaded /\ index = CellIndex
    /\ Tags(registry) = {MetaName("UserEnum"), MetaName("Other")}
    /\ udType = "UserEnum" /\ loadType = "Other"
    /\ res = None

C12_WitnessNil ==
    /\ Loaded /\ index = 1 /\ CellIndex = 2
    /\ stack[1] = Nil
    /\ udType = "Other" /\ loadType = "Other"
    /\ MetaName("Other") \in Tags(registry)
    /\ res = None

(* The method table a list of `field => func` pairs leaves behind: every   *)
(* listed field holds the function of its last listing, every other field  *)
(* what it held.                                                           *)
Fields(ms) == {ms[j][1] : j \in 1..Len(ms)}
LastOf(ms, f) ==
    ms[CHOOSE j \in 1..Len(ms) :
          /\ ms[j][1] = f
          /\ \A k \in (j + 1)..Len(ms) : ms[k][1] # f][2]
Overwritten(old, ms) ==
    [f \in DOMAIN old \cup Fields(ms) |->
        IF f \in Fields(ms) THEN LastOf(ms, f) ELSE old[f]]

(* C20: an attach that panics because the tag was registered has written   *)
(* every listed method into the registered method table and popped the     *)
(* metatable: the height is the entry height, the other tags' tables are   *)
(* untouched, and the tag's table is the old one overwritten by the list.  *)
C20_DuplicateAttachWrites ==
    (AttachDone /\ exit = "panic")
    => /\ Len(stack) = H0
       /\ stack = stack0
       /\ Tags(registry) = Tags(registry0)
       /\ \A n \in Tags(registry) :
            registry[n] = IF n = MetaName(udType)
                          THEN Overwritten(registry0[n], methods)
                          ELSE registry0[n]

C20_Witness ==
    /\ AttachDone /\ exit = "panic"
    /\ registry0[MetaName(udType)] = [f \in {"get"} |-> 1]
    /\ methods = <<<<"get", 2>>, <<"set", 1>>>>
    /\ registry[MetaName(udType)] # registry0[MetaName(udType)]
    /\ Len(stack) = 1

(* The key `next` returned last, and the table iteration being under way. *)
LastKey == visited[Len(visited)]
Iterating == pc \in {"tbl_next", "tbl_conv", "tbl_ok", "tbl_err"}

RECURSIVE ConvertedOnly(_, _)
ConvertedOnly(base, n) ==
    IF n = 0 THEN <<>>
    ELSE IF sels[n] = Wild THEN ConvertedOnly(base, n - 1)
    ELSE Append(ConvertedOnly(base, n - 1),
                FromLuaPrim(sels[n], stack0[base + n]))

(* C15 as stated: a successful call returns one component per non-wildcard *)
(* selector, in selector order, and nothing for a wildcard.                *)
C15_TupleSkipsWildcards ==
    (ConvertDone /\ res.tag = "Ok")
    => res.tuple = ConvertedOnly(H0 - Len(sels), Len(sels))

(* C15: a successful call returns one component per selector, in selector  *)
(* order: the converted value of its slot for a typed selector, the unit   *)
(* value for a wildcard.                                                   *)
C15_TupleOnePerSelector ==
    (ConvertDone /\ res.tag = "Ok")
    => /\ Len(res.tuple) = Len(sels)
       /\ \A p \in 1..Len(sels) :
            res.tuple[p] = IF sels[p] = Wild THEN Unit
                           ELSE FromLuaPrim(sels[p], stack0[H0 - Len(sels) + p])

C15_Witness ==
    /\ ConvertDone /\ strict
    /\ sels = <<"Integer", Wild, "String">>
    /\ res = Ok(<<HV("Integer", 2), Unit, HV("String", 1)>>)

(* What a window of slots gives the selectors, by itself. *)
WindowBad(w) == {p \in 1..Len(sels) : sels[p] # Wild /\ ~Matches(sels[p], w[p])}
WindowResult(w) ==
    IF WindowBad(w) = {}
    THEN Ok([p \in 1..Len(sels) |->
                IF sels[p] = Wild THEN Unit ELSE FromLuaPrim(sels[p], w[p])])
    ELSE Err(CHOOSE p \in WindowBad(w) : \A q \in WindowBad(w) : p <= q)

(* C16: a permissive call on at least L values reads selector p from slot  *)
(* (top - L) + p and no slot below the window; its result is that of the   *)
(* topmost L slots alone, a mismatch being the ordinal of the selector.    *)
C16_WindowOnTop ==
    (ConvertDone /\ ~strict /\ H0 >= Len(sels))
    => LET base == H0 - Len(sels)
           n == IF res.tag = "Ok" THEN Len(sels) ELSE res.pos
       IN  /\ res = WindowResult(SubSeq(stack0, base + 1, H0))
           /\ reads = SlotsUpTo(base, n)
           /\ \A j \in 1..Len(reads) : reads[j] > base
           /\ res.tag = "Err" => res.pos \in 1..Len(sels)

C16_Witness ==
    /\ ConvertDone /\ ~strict
    /\ stack0 = <<LStr(1), LInt(1), LInt(2)>>
    /\ sels = <<"Integer", "String">>
    /\ res = Err(2)
    /\ reads = <<2, 3>>

C16_WitnessOk ==
    /\ ConvertDone /\ ~strict
    /\ stack0 = <<LStr(1), LInt(1), LInt(2)>>
    /\ sels = <<"Integer", "Integer">>
    /\ res = Ok(<<HV("Integer", 1), HV("Integer", 2)>>)

(* to_lua has returned, and the table it made. *)
Pushed == pc = "pushed" /\ op = "array_to_lua"
NewTb == heap[Len(heap)]

(* C17: to_lua of a host sequence of length n creates one table, leaves it *)
(* on top of the entry stack and touches no other table; the keys of the   *)
(* new table are exactly 1..n, key i holding element i.                    *)
C17_DenseTable ==
    Pushed
    => /\ Len(heap) = Len(heap0) + 1
       /\ SubSeq(heap, 1, Len(heap0)) = heap0
       /\ stack = Append(stack0, LTbl(Len(heap)))
       /\ DOMAIN NewTb = {LInt(i) : i \in 1..Len(hostVec)}
       /\ \A i \in 1..Len(hostVec) : NewTb[LInt(i)] = ToLuaPrim(hostVec[i])

C17_Witness ==
    /\ Pushed
    /\ heap0 = <<EmptyTable>>
    /\ hostVec = <<HV("String", 2), HV("String", 1), HV("String", 2)>>
    /\ DOMAIN NewTb = {LInt(1), LInt(2), LInt(3)}
    /\ NewTb[LInt(3)] = LStr(2)

C17_WitnessEmpty ==
    /\ Pushed /\ hostVec = <<>> /\ NewTb = EmptyTable /\ Len(stack) = H0 + 1

C19_WitnessMarker ==
    /\ pc = "tbl_next" /\ visited = <<>> /\ DOMAIN Tb0 # {}
    /\ stack = Append(stack0, Nil)

C19_WitnessConvFailed ==
    /\ pc = "tbl_err" /\ Len(visited) = 2 /\ Len(stack) = H0 + 2

(* No entry has been handed to the conversion twice. *)
NoRevisit ==
    \A i, j \in 1..Len(converted) : i # j => converted[i] # converted[j]

(* from_lua has returned for a table all of whose entries convert: `next`  *)
(* has been through every key once, reported the end, and the completed    *)
(* mapping is the result.                                                  *)
EndsAtNextEnd ==
    (FromLuaOnTable("table_from_lua") /\ \A k \in DOMAIN Tb0 : EntryOk(k))
    => /\ left = {}
       /\ Len(visited) = Cardinality(DOMAIN Tb0)
       /\ converted = visited
       /\ res = Some(coll)
       /\ Cardinality(DOMAIN coll) = Cardinality(DOMAIN Tb0)
       /\ exit = "normal"

(* C18: from_lua of a map type returns on every finite table; no entry is  *)
(* visited twice; when every entry converts the loop ends when `next` has  *)
(* no entry left, and the result is the completed mapping.                 *)
C18_MapConstructionTerminates ==
    /\ []NoRevisit
    /\ []EndsAtNextEnd
    /\ [](Iterating => Len(visited) <= Cardinality(DOMAIN Tb0))
    /\ <>(pc = "done")

C18_Witness ==
    /\ FromLuaOnTable("table_from_lua")
    /\ Cardinality(DOMAIN Tb0) = 3
    /\ Len(converted) = 3 /\ converted = visited
    /\ res = Some(coll)
    /\ Len(stack) = H0

====
